---- MODULE Spec2Model ----
(***************************************************************************)
(* geohash core (src/src/core.rs): encode, decode_bbox, decode, neighbor   *)
(* and neighbors, as pure functions over IEEE-754 binary64 values, and a   *)
(* state machine whose actions are single calls of the public functions.   *)
(*                                                                         *)
(* A finite f64 is kept exactly, as sign * mantissa * 2^exponent with an   *)
(* odd mantissa held in limbs (TLC integers are 32 bits wide, an f64       *)
(* mantissa is 53), and every addition rounds to 53 significant bits, ties *)
(* to even, as the hardware does.  Exponents stay far inside the binary64  *)
(* range for every input the model draws, so neither overflow to infinity  *)
(* nor gradual underflow is modelled in the arithmetic.                    *)
(***************************************************************************)
EXTENDS Integers, Sequences, FiniteSets, TLC

(***************************************************************************)
(* Natural numbers of any size: little-endian limbs, no leading zero limb. *)
(***************************************************************************)
LimbBits == 15

RECURSIVE Pow2(_)
Pow2(k) == IF k = 0 THEN 1 ELSE 2 * Pow2(k - 1)

Base == Pow2(LimbBits)

Limb(a, i) == IF i <= Len(a) THEN a[i] ELSE 0

RECURSIVE BStrip(_)
BStrip(a) ==
    IF a = <<>> THEN <<>>
    ELSE IF a[Len(a)] = 0 THEN BStrip(SubSeq(a, 1, Len(a) - 1))
    ELSE a

RECURSIVE BFromNat(_)
BFromNat(n) == IF n = 0 THEN <<>> ELSE <<n % Base>> \o BFromNat(n \div Base)

RECURSIVE BAddFrom(_, _, _, _)
BAddFrom(a, b, i, carry) ==
    IF i > Len(a) /\ i > Len(b)
    THEN (IF carry = 0 THEN <<>> ELSE <<carry>>)
    ELSE LET s == Limb(a, i) + Limb(b, i) + carry
         IN  <<s % Base>> \o BAddFrom(a, b, i + 1, s \div Base)

BAdd(a, b) == BAddFrom(a, b, 1, 0)

\* a - b for a >= b
RECURSIVE BSubFrom(_, _, _, _)
BSubFrom(a, b, i, borrow) ==
    IF i > Len(a) THEN <<>>
    ELSE LET d == a[i] - Limb(b, i) - borrow
         IN  IF d < 0 THEN <<d + Base>> \o BSubFrom(a, b, i + 1, 1)
             ELSE <<d>> \o BSubFrom(a, b, i + 1, 0)

BSub(a, b) == BStrip(BSubFrom(a, b, 1, 0))

\* -1, 0, 1 as a < b, a = b, a > b
RECURSIVE BCmpFrom(_, _, _)
BCmpFrom(a, b, i) ==
    IF i = 0 THEN 0
    ELSE IF a[i] < b[i] THEN -1
    ELSE IF a[i] > b[i] THEN 1
    ELSE BCmpFrom(a, b, i - 1)

BCmp(a, b) ==
    IF Len(a) < Len(b) THEN -1
    ELSE IF Len(a) > Len(b) THEN 1
    ELSE BCmpFrom(a, b, Len(a))

RECURSIVE BMulSmallFrom(_, _, _, _)
BMulSmallFrom(a, f, i, carry) ==
    IF i > Len(a) THEN (IF carry = 0 THEN <<>> ELSE <<carry>>)
    ELSE LET p == a[i] * f + carry
         IN  <<p % Base>> \o BMulSmallFrom(a, f, i + 1, p \div Base)

\* a * 2^k
BShl(a, k) ==
    IF a = <<>> THEN <<>>
    ELSE [i \in 1..(k \div LimbBits) |-> 0]
         \o BMulSmallFrom(a, Pow2(k % LimbBits), 1, 0)

\* floor(a / (2^LimbBits)^q / p) for p a power of two below the base
BShrBy(a, q, p) ==
    IF Len(a) <= q THEN <<>>
    ELSE BStrip([i \in 1..(Len(a) - q) |->
            (a[q + i] \div p) + (Limb(a, q + i + 1) % p) * (Base \div p)])

\* floor(a / 2^k)
BShr(a, k) == BShrBy(a, k \div LimbBits, Pow2(k % LimbBits))

RECURSIVE BitLenSmall(_)
BitLenSmall(x) == IF x = 0 THEN 0 ELSE 1 + BitLenSmall(x \div 2)

BBitLen(a) ==
    IF a = <<>> THEN 0 ELSE LimbBits * (Len(a) - 1) + BitLenSmall(a[Len(a)])

RECURSIVE TzSmall(_)
TzSmall(x) == IF x % 2 = 1 THEN 0 ELSE 1 + TzSmall(x \div 2)

\* the number of trailing zero bits of a > 0
RECURSIVE BTzFrom(_, _)
BTzFrom(a, i) ==
    IF a[i] = 0 THEN LimbBits + BTzFrom(a, i + 1) ELSE TzSmall(a[i])

BOdd(a) == a # <<>> /\ a[1] % 2 = 1

(***************************************************************************)
(* f64.  k is "fin", "nan" or "inf"; a finite value is s * m * 2^e with    *)
(* s in {-1, 0, 1} and m odd; zero is [s = 0, m = <<>>, e = 0].            *)
(***************************************************************************)
MantBits == 53

FZero == [k |-> "fin", s |-> 0, m |-> <<>>, e |-> 0]
NaN == [k |-> "nan", s |-> 0, m |-> <<>>, e |-> 0]
Inf(sgn) == [k |-> "inf", s |-> sgn, m |-> <<>>, e |-> 0]

FShift(s, m, e, tz) == [k |-> "fin", s |-> s, m |-> BShr(m, tz), e |-> e + tz]

\* s * m * 2^e in canonical form: m odd
FNorm(s, m, e) ==
    IF m = <<>> \/ s = 0 THEN FZero ELSE FShift(s, m, e, BTzFrom(m, 1))

\* q or q + 1 as the bits cut off compare (c) with half a unit of q: ties to even
FRoundUp(s, q, e, c) ==
    FNorm(s, IF c > 0 \/ (c = 0 /\ BOdd(q)) THEN BAdd(q, <<1>>) ELSE q, e)

FRoundCut(s, m, e, sh, q) ==
    FRoundUp(s, q, e + sh, BCmp(BSub(m, BShl(q, sh)), BShl(<<1>>, sh - 1)))

FRoundLen(s, m, e, len, prec) ==
    IF prec = 0 \/ len <= prec THEN FNorm(s, m, e)
    ELSE FRoundCut(s, m, e, len - prec, BShr(m, len - prec))

\* s * m * 2^e rounded to prec significant bits, ties to even (prec = 0: as it is)
FRound(s, m, e, prec) == FRoundLen(s, m, e, BBitLen(m), prec)

\* the f64 of the integer n * 2^e, n a small integer
Fl(n, e) == FNorm(IF n < 0 THEN -1 ELSE IF n > 0 THEN 1 ELSE 0,
                  BFromNat(IF n < 0 THEN -n ELSE n), e)

Min2(a, b) == IF a <= b THEN a ELSE b

MagCmpTop(a, b, ta, tb) ==
    IF ta < tb THEN -1
    ELSE IF ta > tb THEN 1
    ELSE BCmp(BShl(a.m, a.e - Min2(a.e, b.e)), BShl(b.m, b.e - Min2(a.e, b.e)))

\* -1, 0, 1 as |a| < |b|, |a| = |b|, |a| > |b|, for finite non-zero a and b
MagCmp(a, b) == MagCmpTop(a, b, BBitLen(a.m) + a.e, BBitLen(b.m) + b.e)

\* -1, 0, 1 as a < b, a = b, a > b, for finite a and b
FinCmp(a, b) ==
    IF a.s # b.s THEN (IF a.s < b.s THEN -1 ELSE 1)
    ELSE IF a.s = 0 THEN 0
    ELSE a.s * MagCmp(a, b)

\* -1, 0, 1 for ordered operands (neither is a NaN)
FCmp(a, b) ==
    IF a.k = "inf" /\ b.k = "inf"
    THEN (IF a.s < b.s THEN -1 ELSE IF a.s > b.s THEN 1 ELSE 0)
    ELSE IF a.k = "inf" THEN a.s
    ELSE IF b.k = "inf" THEN -b.s
    ELSE FinCmp(a, b)

Ordered(a, b) == a.k # "nan" /\ b.k # "nan"

\* the f64 comparisons: every comparison with a NaN is false
FLt(a, b) == Ordered(a, b) /\ FCmp(a, b) < 0
FGt(a, b) == Ordered(a, b) /\ FCmp(a, b) > 0
FLe(a, b) == Ordered(a, b) /\ FCmp(a, b) <= 0

FNeg(a) == [a EXCEPT !.s = -@]
FAbs(a) == [a EXCEPT !.s = IF @ = 0 THEN 0 ELSE 1]

\* sa * ma * 2^e + sb * mb * 2^e for sa # sb, c comparing ma with mb
SumDiff(sa, sb, ma, mb, e, c, prec) ==
    IF c = 0 THEN FZero
    ELSE FRound(IF c > 0 THEN sa ELSE sb,
                IF c > 0 THEN BSub(ma, mb) ELSE BSub(mb, ma), e, prec)

SumAligned(sa, sb, ma, mb, e, prec) ==
    IF sa = sb THEN FRound(sa, BAdd(ma, mb), e, prec)
    ELSE SumDiff(sa, sb, ma, mb, e, BCmp(ma, mb), prec)

\* a + b for finite a and b, rounded to prec significant bits
Sum(a, b, prec) ==
    IF a.s = 0 THEN b
    ELSE IF b.s = 0 THEN a
    ELSE SumAligned(a.s, b.s, BShl(a.m, a.e - Min2(a.e, b.e)),
                    BShl(b.m, b.e - Min2(a.e, b.e)), Min2(a.e, b.e), prec)

\* the f64 a + b and a - b
FAdd(a, b) == Sum(a, b, MantBits)
FSub(a, b) == Sum(a, FNeg(b), MantBits)

\* the real numbers a + b and a - b
RealAdd(a, b) == Sum(a, b, 0)
RealSub(a, b) == Sum(a, FNeg(b), 0)

\* a / 2f64 and 2f64 * a: a change of exponent, exact
FHalf(a) == IF a.s = 0 THEN a ELSE [a EXCEPT !.e = @ - 1]
FDouble(a) == IF a.s = 0 THEN a ELSE [a EXCEPT !.e = @ + 1]

\* a * d for d one of -1f64, 0f64, 1f64
FTimesUnit(a, d) == IF d = 0 THEN FZero ELSE IF d < 0 THEN FNeg(a) ELSE a

(***************************************************************************)
(* The program's values.  A char is its Unicode scalar value, a string the *)
(* sequence of its chars; Coordinate and Rect are the geo-types carriers.  *)
(***************************************************************************)
VARIABLES
    overflow_checks,  \* the build profile: TRUE panics on integer overflow (debug), FALSE wraps (release)
    call,             \* the call made: the function and its arguments
    result            \* what the call returned

vars == <<overflow_checks, call, result>>

\* e, with v evaluated first: TLC hands an argument on unevaluated, and a loop
\* that never looks at its state would evaluate the whole chain at its end
Strict(v, e) == IF v = v THEN e ELSE e

Coordinate(x, y) == [x |-> x, y |-> y]
Rect(c0, c1) == [min |-> c0, max |-> c1]

Ok(v) == [kind |-> "Ok", val |-> v]
Err(e) == [kind |-> "Err", val |-> e]
Panic(msg) == [kind |-> "Panic", val |-> msg]

InvalidCoordinateRange(c) == [err |-> "InvalidCoordinateRange", c |-> c]
InvalidHashCharacter(ch) == [err |-> "InvalidHashCharacter", ch |-> ch]

\* '0'..'9', then 'b'..'z' without 'i', 'l', 'o'
BASE32_CODES ==
    <<48, 49, 50, 51, 52, 53, 54, 55, 56, 57, 98, 99, 100, 101, 102, 103,
      104, 106, 107, 109, 110, 112, 113, 114, 115, 116, 117, 118, 119, 120,
      121, 122>>

\* str::len: the length in bytes of the UTF-8 encoding
Utf8Width(ch) ==
    IF ch < 128 THEN 1 ELSE IF ch < 2048 THEN 2 ELSE IF ch < 65536 THEN 3 ELSE 4

RECURSIVE StrLenFrom(_, _)
StrLenFrom(h, i) == IF i > Len(h) THEN 0 ELSE Utf8Width(h[i]) + StrLenFrom(h, i + 1)

StrLen(h) == StrLenFrom(h, 1)

(***************************************************************************)
(* encode                                                                  *)
(***************************************************************************)
\* a % b on i8: the remainder has the sign of the dividend
RemI8(a, b) == IF a >= 0 THEN a % b ELSE -((-a) % b)

I8Max == 127
I8Min == -128

\* Mid without the halving
MidSum(max, min) == FAdd(max, min)

\* (max + min) / 2f64
Mid(max, min) == FHalf(FAdd(max, min))

EncodeInit ==
    [out |-> <<>>, bits_total |-> 0, hash_value |-> 0,
     max_lat |-> Fl(90, 0), min_lat |-> Fl(-90, 0),
     max_lon |-> Fl(180, 0), min_lon |-> Fl(-180, 0), panic |-> FALSE]

\* OutOfRange without the latitude tests
OutOfRangeLon(c, st) == FLt(c.x, st.min_lon) \/ FGt(c.x, st.max_lon)

\* c.x < min_lon || c.x > max_lon || c.y < min_lat || c.y > max_lat
OutOfRange(c, st) ==
    \/ FLt(c.x, st.min_lon)
    \/ FGt(c.x, st.max_lon)
    \/ FLt(c.y, st.min_lat)
    \/ FGt(c.y, st.max_lat)

\* bits_total += 1
IncBitsTotal(st) ==
    IF st.bits_total = I8Max
    THEN (IF overflow_checks THEN [st EXCEPT !.panic = TRUE]
          ELSE [st EXCEPT !.bits_total = I8Min])
    ELSE [st EXCEPT !.bits_total = @ + 1]

\* the longitude branch: if c.x > mid { ... } else { ... }
EncodeLon(st, c, mid) ==
    IF FGt(c.x, mid)
    THEN [st EXCEPT !.hash_value = @ * 2 + 1, !.min_lon = mid]
    ELSE [st EXCEPT !.hash_value = @ * 2, !.max_lon = mid]

\* the latitude branch: if c.y > mid { ... } else { ... }
EncodeLat(st, c, mid) ==
    IF FGt(c.y, mid)
    THEN [st EXCEPT !.hash_value = @ * 2 + 1, !.min_lat = mid]
    ELSE [st EXCEPT !.hash_value = @ * 2, !.max_lat = mid]

\* one pass of the body of `for _ in 0..5`
EncodeBit(st, c) ==
    IncBitsTotal(IF RemI8(st.bits_total, 2) = 0
                 THEN EncodeLon(st, c, Mid(st.max_lon, st.min_lon))
                 ELSE EncodeLat(st, c, Mid(st.max_lat, st.min_lat)))

RECURSIVE EncodeFor(_, _, _)
EncodeFor(st, c, n) ==
    IF n = 0 \/ st.panic THEN st ELSE EncodeFor(EncodeBit(st, c), c, n - 1)

\* PushCode without `hash_value = 0`
PushCodeKeep(st) ==
    IF st.panic THEN st
    ELSE IF st.hash_value >= Len(BASE32_CODES) THEN [st EXCEPT !.panic = TRUE]
    ELSE [st EXCEPT !.out = Append(@, BASE32_CODES[st.hash_value + 1])]

\* BASE32_CODES[hash_value], out.push(code), hash_value = 0
PushCode(st) ==
    IF st.panic THEN st
    ELSE IF st.hash_value >= Len(BASE32_CODES) THEN [st EXCEPT !.panic = TRUE]
    ELSE [st EXCEPT !.out = Append(@, BASE32_CODES[st.hash_value + 1]),
                    !.hash_value = 0]

\* one pass of the body of `while out.len() < len`
EncodeChar(st, c) == PushCode(EncodeFor(st, c, 5))

RECURSIVE EncodeWhile(_, _, _)
EncodeWhile(st, c, len) ==
    IF st.panic THEN st
    ELSE IF StrLen(st.out) < len THEN EncodeWhile(EncodeChar(st, c), c, len)
    ELSE st

\* Ok(out), unless the loop panicked
EncodeReturn(st) == IF st.panic THEN Panic("encode") ELSE Ok(st.out)

encode(c, len) ==
    IF OutOfRange(c, EncodeInit) THEN Err(InvalidCoordinateRange(c))
    ELSE EncodeReturn(EncodeWhile(EncodeInit, c, len))

(***************************************************************************)
(* decode_bbox, decode                                                     *)
(***************************************************************************)
\* hash_value_of_char with 'a'..'h' for 'b'..'h'
HashValueFromA(c) ==
    IF c \in 48..57 THEN Ok(c - 48)
    ELSE IF c \in 97..104 THEN Ok(c - 88)
    ELSE IF c \in 106..107 THEN Ok(c - 89)
    ELSE IF c \in 109..110 THEN Ok(c - 90)
    ELSE IF c \in 112..122 THEN Ok(c - 91)
    ELSE Err(InvalidHashCharacter(c))

hash_value_of_char(c) ==
    IF c \in 48..57 THEN Ok(c - 48)
    ELSE IF c \in 98..104 THEN Ok(c - 88)
    ELSE IF c \in 106..107 THEN Ok(c - 89)
    ELSE IF c \in 109..110 THEN Ok(c - 90)
    ELSE IF c \in 112..122 THEN Ok(c - 91)
    ELSE Err(InvalidHashCharacter(c))

DecodeInit ==
    [is_lon |-> TRUE,
     max_lat |-> Fl(90, 0), min_lat |-> Fl(-90, 0),
     max_lon |-> Fl(180, 0), min_lon |-> Fl(-180, 0)]

\* DecodeLon with the branches swapped
DecodeLonSwapped(st, bit, mid) ==
    IF bit = 1 THEN [st EXCEPT !.max_lon = mid] ELSE [st EXCEPT !.min_lon = mid]

\* the longitude branch: if bit == 1 { min_lon = mid } else { max_lon = mid }
DecodeLon(st, bit, mid) ==
    IF bit = 1 THEN [st EXCEPT !.min_lon = mid] ELSE [st EXCEPT !.max_lon = mid]

\* the latitude branch: if bit == 1 { min_lat = mid } else { max_lat = mid }
DecodeLat(st, bit, mid) ==
    IF bit = 1 THEN [st EXCEPT !.min_lat = mid] ELSE [st EXCEPT !.max_lat = mid]

\* is_lon = !is_lon
Flip(st) == [st EXCEPT !.is_lon = ~@]

\* Bit with the least significant bit first: (hash_value >> bs) & 1
BitLsb(hash_value, bs) == (hash_value \div Pow2(bs)) % 2

\* (hash_value >> (4 - bs)) & 1
Bit(hash_value, bs) == (hash_value \div Pow2(4 - bs)) % 2

\* one pass of the body of `for bs in 0..5`
DecodeBit(st, hash_value, bs) ==
    Flip(IF st.is_lon
         THEN DecodeLon(st, Bit(hash_value, bs), Mid(st.max_lon, st.min_lon))
         ELSE DecodeLat(st, Bit(hash_value, bs), Mid(st.max_lat, st.min_lat)))

RECURSIVE DecodeFor(_, _, _)
DecodeFor(st, hash_value, bs) ==
    IF bs = 5 THEN st
    ELSE DecodeFor(DecodeBit(st, hash_value, bs), hash_value, bs + 1)

\* Rect::new(Coordinate { x: min_lon, y: min_lat }, Coordinate { x: max_lon, y: max_lat })
\* (the corners are given in order: min <= max on both axes at every bit)
DecodeReturn(st) ==
    Ok(Rect(Coordinate(st.min_lon, st.min_lat), Coordinate(st.max_lon, st.max_lat)))

\* `for c in hash_str.chars()` from the i-th char on, hv its hash_value_of_char
RECURSIVE DecodeChars(_, _, _, _)
DecodeChars(st, hash_str, i, hv) ==
    IF hv.kind = "Err" THEN hv
    ELSE IF i = Len(hash_str) THEN DecodeReturn(DecodeFor(st, hv.val, 0))
    ELSE Strict(st, DecodeChars(DecodeFor(st, hv.val, 0), hash_str, i + 1,
                                hash_value_of_char(hash_str[i + 1])))

decode_bbox(hash_str) ==
    IF hash_str = <<>> THEN DecodeReturn(DecodeInit)
    ELSE DecodeChars(DecodeInit, hash_str, 1, hash_value_of_char(hash_str[1]))

\* the centre and the half extents of rect
DecodeOf(c0, c1) ==
    Ok([c |-> Coordinate(Mid(c0.x, c1.x), Mid(c0.y, c1.y)),
        lon_err |-> FHalf(FSub(c1.x, c0.x)),
        lat_err |-> FHalf(FSub(c1.y, c0.y))])

\* let rect = decode_bbox(hash_str)?; ...
DecodeRect(rect) ==
    IF rect.kind = "Err" THEN rect ELSE DecodeOf(rect.val.min, rect.val.max)

decode(hash_str) == DecodeRect(decode_bbox(hash_str))

(***************************************************************************)
(* neighbor, neighbors                                                     *)
(***************************************************************************)
Directions == {"N", "NE", "E", "SE", "S", "SW", "W", "NW"}

\* Direction::to_tuple: (dlat, dlng)
to_tuple(direction) ==
    CASE direction = "N"  -> <<1, 0>>
      [] direction = "NE" -> <<1, 1>>
      [] direction = "E"  -> <<0, 1>>
      [] direction = "SE" -> <<-1, 1>>
      [] direction = "S"  -> <<-1, 0>>
      [] direction = "SW" -> <<-1, -1>>
      [] direction = "W"  -> <<0, -1>>
      [] direction = "NW" -> <<1, -1>>

\* Probe without the doubling: coord + err.abs() * d
ProbeHalf(coord, err, d) == FAdd(coord, FTimesUnit(FAbs(err), d))

\* coord + 2f64 * err.abs() * d
Probe(coord, err, d) == FAdd(coord, FTimesUnit(FDouble(FAbs(err)), d))

\* the coordinate neighbor encodes
NeighborCoord(dec, dlat, dlng) ==
    Coordinate(Probe(dec.c.x, dec.lon_err, dlng), Probe(dec.c.y, dec.lat_err, dlat))

\* let (coord, lon_err, lat_err) = decode(hash_str)?; ...
NeighborOf(dec, t, len) ==
    IF dec.kind = "Err" THEN dec
    ELSE encode(NeighborCoord(dec.val, t[1], t[2]), len)

neighbor(hash_str, direction) ==
    NeighborOf(decode(hash_str), to_tuple(direction), StrLen(hash_str))

\* the fields in the order the struct declares them
NeighborsDeclared ==
    << <<"n", "N">>, <<"ne", "NE">>, <<"e", "E">>, <<"se", "SE">>,
       <<"s", "S">>, <<"sw", "SW">>, <<"w", "W">>, <<"nw", "NW">> >>

\* the fields of the Neighbors literal, in the order they are evaluated
NeighborsOrder ==
    << <<"sw", "SW">>, <<"s", "S">>, <<"se", "SE">>, <<"w", "W">>,
       <<"e", "E">>, <<"nw", "NW">>, <<"n", "N">>, <<"ne", "NE">> >>

\* the fields from the i-th on, r the i-th; `?` returns the first failure
RECURSIVE NeighborsFrom(_, _, _, _)
NeighborsFrom(hash_str, i, acc, r) ==
    IF r.kind # "Ok" THEN r
    ELSE IF i = Len(NeighborsOrder) THEN Ok(acc @@ (NeighborsOrder[i][1] :> r.val))
    ELSE NeighborsFrom(hash_str, i + 1, acc @@ (NeighborsOrder[i][1] :> r.val),
                       neighbor(hash_str, NeighborsOrder[i + 1][2]))

neighbors(hash_str) ==
    NeighborsFrom(hash_str, 1, <<>>, neighbor(hash_str, NeighborsOrder[1][2]))

(***************************************************************************)
(* The inputs the calls are made with.                                     *)
(***************************************************************************)
MaxLen == 2       \* the longest hash at the sampled inputs
MaxHashLen == 23  \* the longest hash given to the decoder and the neighbor finder
MaxDeepLen == 27  \* the longest hash asked of the encoder

\* longitudes k * 22.5 and latitudes k * 11.25, the globe's bounds among
\* them: all of them bounds of cells, where the encoder's comparisons tie
LonSamples == {Fl(45 * k, -1) : k \in -8..8}
LatSamples == {Fl(45 * k, -2) : k \in -8..8}

GridCoords == {Coordinate(x, y) : x \in LonSamples, y \in LatSamples}

\* the doc example -120.6623, 35.3003
DocCoord ==
    Coordinate(FNeg(FAdd(Fl(7907724, -16), Fl(529139971, -46))),
               FAdd(Fl(4626880, -17), Fl(989560465, -47)))

\* 180 - 45 * 2^-45, a midpoint of the 48th longitude bit
NearEast == FSub(Fl(180, 0), Fl(45, -45))

\* outside the ranges: far, by one unit in the last place, not a number, infinite
BadLon == {Fl(225, 0), Fl(-225, 0), FAdd(Fl(180, 0), Fl(1, -45)),
           FSub(Fl(-180, 0), Fl(1, -45)), NaN, Inf(1), Inf(-1)}
BadLat == {Fl(135, 0), Fl(-135, 0), FAdd(Fl(90, 0), Fl(1, -46)),
           FSub(Fl(-90, 0), Fl(1, -46)), NaN, Inf(1), Inf(-1)}
FewLon == {Fl(-180, 0), FZero, Fl(180, 0)}
FewLat == {Fl(-90, 0), FZero, Fl(90, 0)}

BadCoords ==
    {Coordinate(x, y) : x \in BadLon, y \in FewLat \cup BadLat}
    \cup {Coordinate(x, y) : x \in FewLon, y \in BadLat}

DeepCoords ==
    {Coordinate(FZero, FZero), Coordinate(Fl(-180, 0), Fl(-90, 0)),
     Coordinate(Fl(180, 0), Fl(90, 0)), Coordinate(NearEast, FZero), DocCoord}

\* 0 7 s z of the alphabet; a and A, which are not in it
ValidSample == {48, 55, 115, 122}
InvalidInside == {97, 65}
\* chars next to the alphabet's five ranges or in their gaps: / : A a i l o {
\* and one that is not ASCII
InvalidSample == {47, 58, 65, 97, 105, 108, 111, 123, 233}
AllValid == {BASE32_CODES[i] : i \in 1..Len(BASE32_CODES)}

RECURSIVE Strings(_, _)
Strings(chars, n) ==
    IF n = 0 THEN {<<>>}
    ELSE Strings(chars, n - 1)
         \cup {Append(h, ch) : h \in {g \in Strings(chars, n - 1) : Len(g) = n - 1},
                               ch \in chars}

RECURSIVE Rep(_, _)
Rep(ch, n) == IF n = 0 THEN <<>> ELSE <<ch>> \o Rep(ch, n - 1)

\* every string of at most MaxLen sampled chars, and every single char
ShortHashes ==
    Strings(ValidSample \cup InvalidInside, MaxLen)
    \cup {<<ch>> : ch \in AllValid \cup InvalidSample}

\* long hashes: the cells at two corners of the globe (0000..., zzzz...), the
\* cell south-west of its centre (7zzz...), and pbzhybw4ksk9rrz2vtwfxgmv8q7x00,
\* a cell east of 128 degrees whose bounds leave the binary64 grid early
DeepSeeds ==
    {Rep(48, MaxHashLen), Rep(122, MaxHashLen), <<55>> \o Rep(122, MaxHashLen - 1),
     <<112, 98, 122, 104, 121, 98, 119, 52, 107, 115, 107, 57, 114, 114, 122,
       50, 118, 116, 119, 102, 120, 103, 109, 118, 56, 113, 55, 120>>
       \o Rep(48, MaxHashLen)}

DeepHashes ==
    {SubSeq(seed, 1, n) : seed \in DeepSeeds, n \in (MaxLen + 1)..MaxHashLen}

\* the doc examples 9q60y60rhs and 9q60y
DocHash == <<57, 113, 54, 48, 121, 54, 48, 114, 104, 115>>
DocHashes == {DocHash, SubSeq(DocHash, 1, 5)}

Hashes == ShortHashes \cup DeepHashes \cup DocHashes

NoCoord == Coordinate(FZero, FZero)

(***************************************************************************)
(* The calls.  Each behaviour is one call: Init draws the function and its *)
(* arguments, and the function's action puts its return value in result.   *)
(***************************************************************************)
Call(op, c, len, h, d) == [op |-> op, c |-> c, len |-> len, h |-> h, d |-> d]

EncodeCalls(coords, lens) == {Call("encode", c, len, <<>>, "N") : c \in coords, len \in lens}

DecodeCalls ==
    {Call(op, NoCoord, 0, h, "N") : op \in {"decode_bbox", "decode"}, h \in Hashes}

NeighborCalls ==
    {Call("neighbor", NoCoord, 0, h, d) : h \in Hashes, d \in Directions}
    \cup {Call("neighbors", NoCoord, 0, h, "N") : h \in Hashes}

\* encode, up to the longest hashes
EncoderCalls ==
    EncodeCalls(GridCoords \cup BadCoords, 0..MaxLen)
    \cup EncodeCalls(DeepCoords, 0..MaxDeepLen)

\* encode and the decoders, at the lengths of the hashes given to the decoders
CodecCalls ==
    EncodeCalls(GridCoords, 0..MaxLen) \cup EncodeCalls(DeepCoords, 0..MaxHashLen)
    \cup DecodeCalls

Pending == [kind |-> "Pending", val |-> <<>>]

InitWith(calls) ==
    /\ overflow_checks \in BOOLEAN
    /\ call \in calls
    /\ result = Pending

Init == InitWith(EncoderCalls \cup CodecCalls \cup NeighborCalls)

Encode ==
    /\ call.op = "encode"
    /\ result = Pending
    /\ result' = encode(call.c, call.len)
    /\ UNCHANGED <<overflow_checks, call>>

DecodeBbox ==
    /\ call.op = "decode_bbox"
    /\ result = Pending
    /\ result' = decode_bbox(call.h)
    /\ UNCHANGED <<overflow_checks, call>>

Decode ==
    /\ call.op = "decode"
    /\ result = Pending
    /\ result' = decode(call.h)
    /\ UNCHANGED <<overflow_checks, call>>

Neighbor ==
    /\ call.op = "neighbor"
    /\ result = Pending
    /\ result' = neighbor(call.h, call.d)
    /\ UNCHANGED <<overflow_checks, call>>

Neighbors ==
    /\ call.op = "neighbors"
    /\ result = Pending
    /\ result' = neighbors(call.h)
    /\ UNCHANGED <<overflow_checks, call>>

Next == Encode \/ DecodeBbox \/ Decode \/ Neighbor \/ Neighbors

Spec == Init /\ [][Next]_vars

\* the encoder alone
EncoderInit == InitWith(EncoderCalls)
EncoderSpec == EncoderInit /\ [][Encode]_vars

\* the encoder and the decoders
CodecInit == InitWith(CodecCalls)
CodecNext == Encode \/ DecodeBbox \/ Decode
CodecSpec == CodecInit /\ [][CodecNext]_vars

\* the neighbor finder
NeighborInit == InitWith(NeighborCalls)
NeighborNext == Neighbor \/ Neighbors
NeighborSpec == NeighborInit /\ [][NeighborNext]_vars

(***************************************************************************)
(* What the properties speak of.  Comparisons of finite f64 values are     *)
(* exact, and RealAdd and RealSub do not round: these are statements about *)
(* the real numbers the f64 values stand for.                              *)
(***************************************************************************)
\* the call op has returned
Done(op) == call.op = op /\ result # Pending

\* longitude in [-180, 180] and latitude in [-90, 90]
InRange(c) ==
    /\ FLe(Fl(-180, 0), c.x) /\ FLe(c.x, Fl(180, 0))
    /\ FLe(Fl(-90, 0), c.y) /\ FLe(c.y, Fl(90, 0))

\* "0123456789bcdefghjkmnpqrstuvwxyz"
Alphabet == (48..57 \cup 98..122) \ {105, 108, 111}

InAlphabet(h) == \A i \in 1..Len(h) : h[i] \in Alphabet

\* the first char of h that is not in the alphabet
FirstBad(h) ==
    h[CHOOSE i \in 1..Len(h) :
        h[i] \notin Alphabet /\ \A j \in 1..(i - 1) : h[j] \in Alphabet]

\* |a - b| <= err
Within(a, b, err) == FLe(FAbs(RealSub(a, b)), err)

\* c in rect, bounds inclusive
Contains(rect, c) ==
    /\ FLe(rect.min.x, c.x) /\ FLe(c.x, rect.max.x)
    /\ FLe(rect.min.y, c.y) /\ FLe(c.y, rect.max.y)

\* the decoded value dec is within its errors of c
RoundTripErr(dec, c) ==
    /\ dec.kind = "Ok"
    /\ Within(dec.val.c.x, c.x, dec.val.lon_err)
    /\ Within(dec.val.c.y, c.y, dec.val.lat_err)

\* the decoded rectangle box contains c
RoundTripBox(box, c) == box.kind = "Ok" /\ Contains(box.val, c)

Width(rect) == RealSub(rect.max.x, rect.min.x)
Height(rect) == RealSub(rect.max.y, rect.min.y)

MinLeMax(rect) == FLe(rect.min.x, rect.max.x) /\ FLe(rect.min.y, rect.max.y)

Inside(inner, outer) ==
    /\ FLe(outer.min.x, inner.min.x) /\ FLe(inner.max.x, outer.max.x)
    /\ FLe(outer.min.y, inner.min.y) /\ FLe(inner.max.y, outer.max.y)

Narrower(inner, outer) ==
    FLt(Width(inner), Width(outer)) /\ FLt(Height(inner), Height(outer))

\* the errors of the decoded value dec are below those of outer
SmallerErrors(dec, outer) ==
    FLt(dec.lon_err, outer.lon_err) /\ FLt(dec.lat_err, outer.lat_err)

\* h without its last char
Front(h) == SubSeq(h, 1, Len(h) - 1)

\* (dlat, dlng) of a direction, as the claims about neighbor read it
SignVector(d) ==
    <<IF d \in {"N", "NE", "NW"} THEN 1 ELSE IF d \in {"S", "SE", "SW"} THEN -1 ELSE 0,
      IF d \in {"E", "NE", "SE"} THEN 1 ELSE IF d \in {"W", "NW", "SW"} THEN -1 ELSE 0>>

\* to is from moved by dlng widths and dlat heights of from
MovedBy(to, from, dx, dy) ==
    /\ to.min.x = RealAdd(from.min.x, dx) /\ to.max.x = RealAdd(from.max.x, dx)
    /\ to.min.y = RealAdd(from.min.y, dy) /\ to.max.y = RealAdd(from.max.y, dy)

Translated(to, from, t) ==
    MovedBy(to, from, FTimesUnit(Width(from), t[2]), FTimesUnit(Height(from), t[1]))

\* the cell rect has a side on the bounds of the globe that t points across
Touches(rect, t) ==
    \/ t[2] = 1 /\ rect.max.x = Fl(180, 0)
    \/ t[2] = -1 /\ rect.min.x = Fl(-180, 0)
    \/ t[1] = 1 /\ rect.max.y = Fl(90, 0)
    \/ t[1] = -1 /\ rect.min.y = Fl(-90, 0)

\* (center.x + 2 * lon_error * dlng, center.y + 2 * lat_error * dlat) in f64
ProbeOf(dec, t) ==
    Coordinate(FAdd(dec.c.x, FTimesUnit(FDouble(dec.lon_err), t[2])),
               FAdd(dec.c.y, FTimesUnit(FDouble(dec.lat_err), t[1])))

(***************************************************************************)
(* encode                                                                  *)
(***************************************************************************)
\* C1 as stated: for every coordinate in range and every length n >= 1,
\* decode(encode(c, n)) succeeds with |center.x - c.x| <= lon_error and
\* |center.y - c.y| <= lat_error, and decode_bbox(encode(c, n)) contains c.
C1_RoundTripAnyLength ==
    Done("encode") /\ InRange(call.c) /\ call.len >= 1
    => /\ result.kind = "Ok"
       /\ RoundTripErr(decode(result.val), call.c)
       /\ RoundTripBox(decode_bbox(result.val), call.c)

\* C1 as amended: for every coordinate in range, at every length n in 1..18
\* encode succeeds and the decoded centre is within the decoded errors of c;
\* and at every length at which encode returns a string, the decoded
\* rectangle contains c, bounds inclusive.
C1_RoundTrip ==
    Done("encode") /\ InRange(call.c) /\ call.len >= 1
    => /\ call.len <= 18
          => result.kind = "Ok" /\ RoundTripErr(decode(result.val), call.c)
       /\ result.kind = "Ok" => RoundTripBox(decode_bbox(result.val), call.c)

\* 180 - 45 * 2^-45 encoded at length 18 and found again within the errors
C1_Witness ==
    /\ Done("encode") /\ call.len = 18 /\ call.c = Coordinate(NearEast, FZero)
    /\ result.kind = "Ok"
    /\ RoundTripErr(decode(result.val), call.c)

\* C2: for every coordinate in range and every length n in 1..20, encode
\* returns a string of exactly n chars, each of the 32 of the alphabet (so
\* hash_value is within the table each time it indexes it).
C2_LengthAndAlphabet ==
    Done("encode") /\ InRange(call.c) /\ call.len \in 1..20
    => /\ result.kind = "Ok"
       /\ Len(result.val) = call.len
       /\ InAlphabet(result.val)

\* the doc example encoded at length 20
C2_Witness ==
    /\ Done("encode") /\ call.len = 20 /\ call.c = DocCoord
    /\ result.kind = "Ok" /\ Len(result.val) = 20
    /\ SubSeq(result.val, 1, 5) = <<57, 113, 54, 48, 121>>

\* C3: encode fails with InvalidCoordinateRange carrying the coordinate it
\* was given when the coordinate is out of range, whatever the length, and
\* does not return this error when the coordinate is in range.
C3_RangeError ==
    Done("encode")
    => IF InRange(call.c) THEN result.kind # "Err"
       ELSE result = Err(InvalidCoordinateRange(call.c))

\* C9: for every coordinate in range and every length n, bits_total counts
\* the 5 * n bits without leaving the i8 range and encode returns a string
\* of exactly n chars.
C9_NoMaximumLength ==
    Done("encode") /\ InRange(call.c)
    => /\ result.kind = "Ok"
       /\ Len(result.val) = call.len
       /\ EncodeWhile(EncodeInit, call.c, call.len).bits_total = 5 * call.len

(***************************************************************************)
(* decode_bbox, decode                                                     *)
(***************************************************************************)
\* C4: decode_bbox succeeds if and only if every char of the string is in
\* the alphabet, and fails otherwise with InvalidHashCharacter carrying the
\* first char that is not; decode succeeds and fails on the same strings,
\* with the same error.
C4_InvalidHashCharacter ==
    Done("decode_bbox") \/ Done("decode")
    => IF InAlphabet(call.h) THEN result.kind = "Ok"
       ELSE result = Err(InvalidHashCharacter(FirstBad(call.h)))

\* "Aa": two chars out of the alphabet, the first one reported
C4_Witness ==
    /\ Done("decode") /\ call.h = <<65, 97>>
    /\ result = Err(InvalidHashCharacter(65))

\* C5 as stated: every rectangle decode_bbox returns has min <= max on both
\* axes, and the rectangle of h + x lies inside the rectangle of h and is
\* strictly narrower on both axes.
C5_NestingAnyLength ==
    Done("decode_bbox") /\ result.kind = "Ok"
    => /\ MinLeMax(result.val)
       /\ call.h # <<>>
          => /\ Inside(result.val, decode_bbox(Front(call.h)).val)
             /\ Narrower(result.val, decode_bbox(Front(call.h)).val)
             /\ SmallerErrors(decode(call.h).val, decode(Front(call.h)).val)

\* C5 as amended: every rectangle decode_bbox returns has min <= max on
\* both axes and the rectangle of h + x lies inside the rectangle of h; it is
\* strictly narrower on both axes, and decode's errors strictly smaller,
\* when h + x has at most 21 chars.
C5_Nesting ==
    Done("decode_bbox") /\ result.kind = "Ok"
    => /\ MinLeMax(result.val)
       /\ call.h # <<>>
          => /\ Inside(result.val, decode_bbox(Front(call.h)).val)
             /\ Len(call.h) <= 21
                => /\ Narrower(result.val, decode_bbox(Front(call.h)).val)
                   /\ SmallerErrors(decode(call.h).val,
                                    decode(Front(call.h)).val)

\* zzz...z of 21 chars, strictly inside the cell of its first 20 chars
C5_Witness ==
    /\ Done("decode_bbox") /\ call.h = Rep(122, 21) /\ result.kind = "Ok"
    /\ Narrower(result.val, decode_bbox(Rep(122, 20)).val)

\* C10 as stated: for every valid hash h of length n >= 0,
\* encode(decode(h).center, n) = h.
C10_InverseAnyLength ==
    Done("decode") /\ result.kind = "Ok"
    => encode(result.val.c, StrLen(call.h)) = Ok(call.h)

\* C10 as amended: for every valid hash h of length n in 0..20,
\* encode(decode(h).center, n) = h.
C10_Inverse ==
    Done("decode") /\ result.kind = "Ok" /\ Len(call.h) <= 20
    => encode(result.val.c, StrLen(call.h)) = Ok(call.h)

\* pbzhybw4ksk9rrz2vtwf, of 20 chars, found again from its centre
C10_Witness ==
    /\ Done("decode") /\ Len(call.h) = 20 /\ call.h[1] = 112
    /\ result.kind = "Ok"
    /\ encode(result.val.c, 20) = Ok(call.h)

(***************************************************************************)
(* neighbor, neighbors                                                     *)
(***************************************************************************)
\* C6 as stated: whenever neighbor(h, d) succeeds, its result has as many
\* chars as h, is not h, and its rectangle is the rectangle of h moved by
\* dlng cell widths and dlat cell heights.
C6_AdjacentAnyLength ==
    Done("neighbor") /\ result.kind = "Ok"
    => /\ Len(result.val) = Len(call.h)
       /\ result.val # call.h
       /\ Translated(decode_bbox(result.val).val, decode_bbox(call.h).val,
                     SignVector(call.d))

\* C6 as amended: the same for every hash h of 1 to 19 chars.
C6_Adjacent ==
    Done("neighbor") /\ result.kind = "Ok" /\ Len(call.h) <= 19
    => /\ Len(result.val) = Len(call.h)
       /\ result.val # call.h
       /\ Translated(decode_bbox(result.val).val, decode_bbox(call.h).val,
                     SignVector(call.d))

\* the cell north-east of pbzhybw4ksk9rrz2vtw, of 19 chars
C6_Witness ==
    /\ Done("neighbor") /\ Len(call.h) = 19 /\ call.h[1] = 112 /\ call.d = "NE"
    /\ result.kind = "Ok" /\ result.val # call.h

\* C7 as stated: for every valid hash h and direction d, neighbor(h, d)
\* fails exactly when the cell of h touches the bounds of the globe on a side
\* d points across, and then with InvalidCoordinateRange carrying the probe
\* coordinate, which is out of range; in every other case it succeeds.
C7_NoWraparoundAnyLength ==
    Done("neighbor") /\ InAlphabet(call.h)
    => IF Touches(decode_bbox(call.h).val, SignVector(call.d))
       THEN /\ result =
                 Err(InvalidCoordinateRange(
                         ProbeOf(decode(call.h).val, SignVector(call.d))))
            /\ ~InRange(result.val.c)
       ELSE result.kind = "Ok"

\* C7 as amended: the same for every valid hash h of at most 21 chars.
C7_NoWraparound ==
    Done("neighbor") /\ InAlphabet(call.h) /\ Len(call.h) <= 21
    => IF Touches(decode_bbox(call.h).val, SignVector(call.d))
       THEN /\ result =
                 Err(InvalidCoordinateRange(
                         ProbeOf(decode(call.h).val, SignVector(call.d))))
            /\ ~InRange(result.val.c)
       ELSE result.kind = "Ok"

\* zzz...z of 21 chars has no neighbor to the east
C7_Witness ==
    /\ Done("neighbor") /\ call.h = Rep(122, 21) /\ call.d = "E"
    /\ result.kind = "Err"
    /\ FGt(result.val.c.x, Fl(180, 0))

\* the directions in the order neighbors evaluates them
EvaluationOrder == <<"SW", "S", "SE", "W", "E", "NW", "N", "NE">>

FieldOf(d) ==
    CASE d = "N" -> "n" [] d = "NE" -> "ne" [] d = "E" -> "e" [] d = "SE" -> "se"
      [] d = "S" -> "s" [] d = "SW" -> "sw" [] d = "W" -> "w" [] d = "NW" -> "nw"

\* the first direction of EvaluationOrder in which h has no neighbor
FirstFailing(h) ==
    EvaluationOrder[CHOOSE i \in 1..8 :
        /\ neighbor(h, EvaluationOrder[i]).kind # "Ok"
        /\ \A j \in 1..(i - 1) : neighbor(h, EvaluationOrder[j]).kind = "Ok"]

\* the record of the doc example of neighbors
DocNeighbors ==
    [n |-> Front(DocHash) \o <<116>>, ne |-> Front(DocHash) \o <<118>>,
     e |-> Front(DocHash) \o <<117>>, se |-> Front(DocHash) \o <<103>>,
     s |-> Front(DocHash) \o <<101>>, sw |-> Front(DocHash) \o <<55>>,
     w |-> Front(DocHash) \o <<107>>, nw |-> Front(DocHash) \o <<109>>]

\* C8: neighbors(h) succeeds if and only if neighbor(h, d) succeeds for all
\* eight directions, and then each field is neighbor(h, d) of its direction
\* and has the length of h; otherwise it fails as neighbor fails in the first
\* failing direction of SW, S, SE, W, E, NW, N, NE.  The doc example has the
\* record the doc gives.
C8_AllOrNothing ==
    Done("neighbors")
    => /\ call.h = DocHash => result = Ok(DocNeighbors)
       /\ IF \A d \in Directions : neighbor(call.h, d).kind = "Ok"
          THEN /\ result.kind = "Ok"
               /\ DOMAIN result.val = {FieldOf(d) : d \in Directions}
               /\ \A d \in Directions :
                     /\ result.val[FieldOf(d)] = neighbor(call.h, d).val
                     /\ Len(result.val[FieldOf(d)]) = Len(call.h)
          ELSE result = neighbor(call.h, FirstFailing(call.h))

\* z, the cell at the north-east corner: SW and S exist, SE is the first to fail
C8_Witness ==
    /\ Done("neighbors") /\ call.h = <<122>>
    /\ neighbor(call.h, "SW").kind = "Ok" /\ neighbor(call.h, "S").kind = "Ok"
    /\ result = neighbor(call.h, "SE") /\ result.kind = "Err"
    /\ result # neighbor(call.h, "N")

====
